---- MODULE Spec2Model ----
(***************************************************************************)
(* Model of the TURN server's transport router                             *)
(* (turn-server/src/server/router.rs), of the CreatePermission handler     *)
(* (turn/src/processor/create_permission.rs) and of the Binding handler    *)
(* (turn/src/processor/binding.rs).                                        *)
(*                                                                         *)
(* Router.  The session table `senders` is a HashMap behind a tokio        *)
(* RwLock.  tokio's RwLock is fair: requests queue first-in first-out and  *)
(* a queued writer holds back every later reader.  `waitq` is that queue   *)
(* (requests not yet served), `readers` the set of callers holding a read  *)
(* guard across a suspension point.  A write guard is never held across a  *)
(* suspension point in this code, so a writer's map operation is one step. *)
(* Each registration owns two bounded channels: `chan` (table sender ->    *)
(* forwarding task) and `relay` (forwarding task -> consumer).             *)
(***************************************************************************)
EXTENDS Integers, Sequences, FiniteSets, TLC

\* ---------------------------------------------------------------- bounds
\* Router::send calls in one behaviour; each carries a fresh payload.
MaxSends == 3
\* Capacity of both channels.  The code uses channel(10) twice; the model
\* scales the capacity down so that a full queue is reached within MaxSends.
ChannelCap == 1

\* The tasks that call the router API concurrently.
Callers == {1, 2}
\* The registrations (get_receiver calls) of one behaviour, in table order.
Sess == {1, 2}
Addrs == {"a4", "a6"}
\* Addresses that connect over a stream transport and so call get_receiver;
\* the other address stays a plain UDP peer.
RegAddrs == {"a4"}

\* IpAddr::V4 / IpAddr::V6 of a socket address.
Family(a) == IF a = "a4" THEN "V4" ELSE "V6"

CallerId(c) == [k |-> "caller", id |-> c]
TaskId(s) == [k |-> "task", id |-> s]

NoCall == [op |-> "none", addr |-> "a4", data |-> 0, flag |-> FALSE,
           dead |-> 0, target |-> 0]

VARIABLES
    senders,   \* Router.senders: address -> session whose Sender it holds, 0 = none
    nreg,      \* registrations inserted so far
    saddr,     \* address captured by each session's forwarding task
    chan,      \* channel(10) #1: payloads sent by Router::send, not yet received by the task
    relay,     \* channel(10) #2: payloads forwarded by the task, not yet taken by the consumer
    tpc,       \* forwarding task position: "unborn" | "recv" | "fwd" | "rmwait" | "done"
    held,      \* payload the forwarding task holds between recv and writer.send
    reader,    \* consumer handle: "none" | "alive" | "dropped" | "closed"
    got,       \* payloads each consumer has taken, in order
    accepted,  \* payloads Router::send has enqueued per session, in completion order
    cpc,       \* caller position: "idle" | "reg" | "lookup" | "chan" | "udp" | "rmwait"
    call,      \* the call each caller is in
    readers,   \* callers holding a read guard of senders
    waitq,     \* FIFO of lock requests not yet served
    udp,       \* datagrams sent by UdpProxy, in order
    nsend,     \* Router::send calls started so far
    \* ---- message handlers (one Context per message; a slot shows the last
    \* message it processed, a CreatePermission or a Binding request)
    hpc,       \* CreatePermission position: "idle" | "verify" | "done"
    hreq,      \* the request being processed
    hresp,     \* the response returned
    hverify,   \* verify_message invocations for this request
    hbinds,    \* bind_port calls made for this request, in order
    hevents,   \* observer notifications made for this request, in order
    hbound,    \* what bind_port returned for this request: "unset" | "Some" | "None"
    breq,      \* the Binding request processed
    bresp,     \* the Binding response returned, with the address it is sent to
    perms      \* the router's port bindings: (client address, port) pairs

routerVars == <<senders, nreg, saddr, chan, relay, tpc, held, reader, got,
                accepted, cpc, call, readers, waitq, udp, nsend>>

procVars == <<hpc, hreq, hresp, hverify, hbinds, hevents, hbound, breq, bresp, perms>>

vars == <<routerVars, procVars>>

\* ------------------------------------------------------------ RwLock
\* read().await returns at once when no write request is queued.
CanRead == \A i \in DOMAIN waitq : waitq[i].mode = "r"

\* write().await returns at once when the lock is free and nothing is queued.
CanWrite == waitq = <<>> /\ readers = {}

\* A queued read request is served once no write request is ahead of it.
ReadEligible(who) ==
    \E i \in DOMAIN waitq :
        /\ waitq[i].who = who
        /\ \A j \in 1..(i - 1) : waitq[j].mode = "r"

\* A queued write request is served once it heads the queue and no read guard
\* is held.
WriteEligible(who) ==
    /\ waitq # <<>>
    /\ Head(waitq).who = who
    /\ readers = {}

Enqueue(who, mode) == Append(waitq, [who |-> who, mode |-> mode])

Served(who) == SelectSeq(waitq, LAMBDA e : e.who # who)

\* ------------------------------------------------------------ channels
\* tokio mpsc: push at the tail, pop at the head.
\* Variant: the payload is queued twice.
PushTwice(q, x) == Append(Append(q, x), x)
Push(q, x) == Append(q, x)
Front(q) == Head(q)
\* Variant: the head is read but left in the queue.
PopKeepsHead(q) == q
Pop(q) == Tail(q)
\* Variant: an unbounded channel.
HasCapacityAlways(q) == TRUE
HasCapacity(q) == Len(q) < ChannelCap

\* The Sender of session s lives in the table until it is replaced or removed.
SenderAlive(s) == saddr[s] \in Addrs /\ senders[saddr[s]] = s

\* The Receiver of session s lives as long as its forwarding task.
ReceiverAlive(s) == tpc[s] \in {"recv", "fwd", "rmwait"}

\* ------------------------------------------------------------ UdpProxy
\* Variant: every datagram leaves through the IPv4 socket.
UdpProxySendV4Only(data, addr) ==
    [sock |-> "v4", to |-> addr, data |-> data]
UdpProxySend(data, addr) ==
    [sock |-> IF Family(addr) = "V4" THEN "v4" ELSE "v6", to |-> addr, data |-> data]

\* ------------------------------------------------------------ Init
RouterInit ==
    /\ senders = [a \in Addrs |-> 0]
    /\ nreg = 0
    /\ saddr = [s \in Sess |-> "none"]
    /\ chan = [s \in Sess |-> <<>>]
    /\ relay = [s \in Sess |-> <<>>]
    /\ tpc = [s \in Sess |-> "unborn"]
    /\ held = [s \in Sess |-> 0]
    /\ reader = [s \in Sess |-> "none"]
    /\ got = [s \in Sess |-> <<>>]
    /\ accepted = [s \in Sess |-> <<>>]
    /\ cpc = [c \in Callers |-> "idle"]
    /\ call = [c \in Callers |-> NoCall]
    /\ readers = {}
    /\ waitq = <<>>
    /\ udp = <<>>
    /\ nsend = 0

\* ------------------------------------------------------------ processor data
Handlers == {1, 2}
ClientAddrs == {"c1", "c2"}
PeerIps == {"ext", "other"}
PeerPorts == {49152, 49153}
Users == {"alice", "bob"}
Creds == Users \cup {"bad", "none"}

\* ctx.env.external.ip() and ctx.env.realm
ExternalIp == "ext"
Realm == "realm"
\* ctx.external, the socket address the server is reached at
External == "ext:3478"

NoPeer == [ip |-> "none", port |-> 0]
Peers == [ip : PeerIps, port : PeerPorts]

\* A parsed CreatePermission request: the requester's address (ctx.addr), the
\* XOR-PEER-ADDRESS attribute if any, and the credentials it carries ("none":
\* omitted, "bad": present but failing the integrity check).
Requests == [addr : ClientAddrs, peer : Peers \cup {NoPeer}, cred : Creds]

NoReq == [addr |-> "none", peer |-> NoPeer, cred |-> "none"]
NoResp == [class |-> "none", code |-> 0, attrs |-> {}, realm |-> "none", key |-> "none"]

\* A parsed Binding request: the requester's address and the credentials it
\* carries, which the handler never looks at.
BindingRequests == [addr : ClientAddrs, cred : Creds]

NoBinding == [addr |-> "none", cred |-> "none"]
NoBindingResp == [class |-> "none", method |-> "none", xor_mapped |-> "none",
                  mapped |-> "none", origin |-> "none", attrs |-> {},
                  key |-> "none", to |-> "none"]

ProcInit ==
    /\ hpc = [h \in Handlers |-> "idle"]
    /\ hreq = [h \in Handlers |-> NoReq]
    /\ hresp = [h \in Handlers |-> NoResp]
    /\ hverify = [h \in Handlers |-> 0]
    /\ hbinds = [h \in Handlers |-> <<>>]
    /\ hevents = [h \in Handlers |-> <<>>]
    /\ hbound = [h \in Handlers |-> "unset"]
    /\ breq = [h \in Handlers |-> NoBinding]
    /\ bresp = [h \in Handlers |-> NoBindingResp]
    /\ perms = {}

Init == RouterInit /\ ProcInit

\* ------------------------------------------------------------ Router::find
\* What find(addr) returns: self.senders.read().await.get(addr).is_some()
Exists(tbl, a) == tbl[a] # 0

\* ------------------------------------------------------------ Router::get_receiver
\* The table after insert(addr, sender): the entry of addr is the new Sender;
\* a Sender it replaces is dropped.
InsertEntry(tbl, a, s) == [tbl EXCEPT ![a] = s]

\* insert under the write guard, then spawn the forwarding task and return
\* the reader.
DoInsert(c, a) ==
    LET s == nreg + 1
    IN  /\ nreg' = s
        /\ senders' = InsertEntry(senders, a, s)
        /\ saddr' = [saddr EXCEPT ![s] = a]
        /\ tpc' = [tpc EXCEPT ![s] = "recv"]
        /\ reader' = [reader EXCEPT ![s] = "alive"]
        /\ cpc' = [cpc EXCEPT ![c] = "idle"]
        /\ call' = [call EXCEPT ![c] = NoCall]

GetReceiver(c, a) ==
    /\ UNCHANGED procVars
    /\ cpc[c] = "idle"
    /\ nreg + Cardinality({d \in Callers : cpc[d] = "reg"}) < Cardinality(Sess)
    /\ IF CanWrite
       THEN DoInsert(c, a) /\ waitq' = waitq
       ELSE /\ cpc' = [cpc EXCEPT ![c] = "reg"]
            /\ call' = [call EXCEPT ![c] = [NoCall EXCEPT !.op = "reg", !.addr = a]]
            /\ waitq' = Enqueue(CallerId(c), "w")
            /\ UNCHANGED <<senders, nreg, saddr, tpc, reader>>
    /\ UNCHANGED <<chan, relay, held, got, accepted, readers, udp, nsend>>

GetReceiverRun(c) ==
    /\ UNCHANGED procVars
    /\ cpc[c] = "reg"
    /\ WriteEligible(CallerId(c))
    /\ DoInsert(c, call[c].addr)
    /\ waitq' = Served(CallerId(c))
    /\ UNCHANGED <<chan, relay, held, got, accepted, readers, udp, nsend>>

\* ------------------------------------------------------------ Router::send
\* The call record of send(addr, data, realy_udp); dead names the session
\* registered for addr whose consumer is already dropped when the call starts.
SendCall(a, data, flag) ==
    [NoCall EXCEPT !.op = "send", !.addr = a, !.data = data, !.flag = flag,
                   !.dead = IF senders[a] # 0 /\ reader[senders[a]] = "dropped"
                            THEN senders[a] ELSE 0]

\* self.senders.read().await.get(addr): with an entry the call goes on to the
\* channel send, without one to the UDP send when realy_udp is set; the read
\* guard stays held through either.
DoLookup(c, rec) ==
    LET s == senders[rec.addr]
    IN  IF s # 0
        THEN /\ cpc' = [cpc EXCEPT ![c] = "chan"]
             /\ call' = [call EXCEPT ![c] = [rec EXCEPT !.target = s]]
             /\ readers' = readers \cup {c}
        ELSE IF rec.flag
        THEN /\ cpc' = [cpc EXCEPT ![c] = "udp"]
             /\ call' = [call EXCEPT ![c] = rec]
             /\ readers' = readers \cup {c}
        ELSE /\ cpc' = [cpc EXCEPT ![c] = "idle"]
             /\ call' = [call EXCEPT ![c] = NoCall]
             /\ readers' = readers

Send(c, a, flag) ==
    /\ UNCHANGED procVars
    /\ cpc[c] = "idle"
    /\ nsend < MaxSends
    /\ nsend' = nsend + 1
    /\ IF CanRead
       THEN DoLookup(c, SendCall(a, nsend + 1, flag)) /\ waitq' = waitq
       ELSE /\ cpc' = [cpc EXCEPT ![c] = "lookup"]
            /\ call' = [call EXCEPT ![c] = SendCall(a, nsend + 1, flag)]
            /\ waitq' = Enqueue(CallerId(c), "r")
            /\ readers' = readers
    /\ UNCHANGED <<senders, nreg, saddr, chan, relay, tpc, held, reader, got,
                   accepted, udp>>

SendLookup(c) ==
    /\ UNCHANGED procVars
    /\ cpc[c] = "lookup"
    /\ ReadEligible(CallerId(c))
    /\ waitq' = Served(CallerId(c))
    /\ DoLookup(c, call[c])
    /\ UNCHANGED <<senders, nreg, saddr, chan, relay, tpc, held, reader, got,
                   accepted, udp, nsend>>

\* sender.send(bytes).await: Err when the Receiver is gone, suspended while the
\* queue is full.  On Err the read guard is released and Router::remove called.
SendChan(c) ==
    /\ UNCHANGED procVars
    /\ cpc[c] = "chan"
    /\ LET s == call[c].target
       IN  IF ~ReceiverAlive(s)
           THEN /\ cpc' = [cpc EXCEPT ![c] = "rmwait"]
                /\ waitq' = Enqueue(CallerId(c), "w")
                /\ UNCHANGED <<chan, accepted, call>>
           ELSE /\ HasCapacity(chan[s])
                /\ chan' = [chan EXCEPT ![s] = Push(chan[s], call[c].data)]
                /\ accepted' = [accepted EXCEPT ![s] = Append(accepted[s], call[c].data)]
                /\ cpc' = [cpc EXCEPT ![c] = "idle"]
                /\ call' = [call EXCEPT ![c] = NoCall]
                /\ waitq' = waitq
    /\ readers' = readers \ {c}
    /\ UNCHANGED <<senders, nreg, saddr, relay, tpc, held, reader, got, udp, nsend>>

\* self.udp.send(data, addr).await
SendUdp(c) ==
    /\ UNCHANGED procVars
    /\ cpc[c] = "udp"
    /\ udp' = Append(udp, UdpProxySend(call[c].data, call[c].addr))
    /\ readers' = readers \ {c}
    /\ cpc' = [cpc EXCEPT ![c] = "idle"]
    /\ call' = [call EXCEPT ![c] = NoCall]
    /\ UNCHANGED <<senders, nreg, saddr, chan, relay, tpc, held, reader, got,
                   accepted, waitq, nsend>>

\* ------------------------------------------------------------ Router::remove
\* The table after remove(addr): whatever entry addr holds is taken out.
\* Variant: the entry is left in the table.
RemoveEntryKeeps(tbl, a) == tbl
RemoveEntry(tbl, a) == [tbl EXCEPT ![a] = 0]

\* remove(&addr) in the forwarding task, then break: the task ends and its
\* Receiver (with what is queued in it) and writer are dropped.
DoTaskRemove(s) ==
    /\ senders' = RemoveEntry(senders, saddr[s])
    /\ tpc' = [tpc EXCEPT ![s] = "done"]
    /\ chan' = [chan EXCEPT ![s] = <<>>]

\* A queued self.senders.write().await.remove(addr) is served: for a forwarding
\* task, or for Router::send after a failed channel send.
Remove(who) ==
    /\ UNCHANGED procVars
    /\ WriteEligible(who)
    /\ waitq' = Served(who)
    /\ IF who.k = "task"
       THEN /\ tpc[who.id] = "rmwait"
            /\ DoTaskRemove(who.id)
            /\ UNCHANGED <<cpc, call>>
       ELSE /\ cpc[who.id] = "rmwait"
            /\ senders' = RemoveEntry(senders, call[who.id].addr)
            /\ cpc' = [cpc EXCEPT ![who.id] = "idle"]
            /\ call' = [call EXCEPT ![who.id] = NoCall]
            /\ UNCHANGED <<tpc, chan>>
    /\ UNCHANGED <<nreg, saddr, relay, held, reader, got, accepted,
                   readers, udp, nsend>>

\* ------------------------------------------------------------ forwarding task
\* receiver.recv().await: Some(bytes), or None once the Sender is dropped and
\* the queue is empty, which ends the task.
TaskRecv(s) ==
    /\ UNCHANGED procVars
    /\ tpc[s] = "recv"
    /\ IF chan[s] # <<>>
       THEN /\ held' = [held EXCEPT ![s] = Front(chan[s])]
            /\ chan' = [chan EXCEPT ![s] = Pop(chan[s])]
            /\ tpc' = [tpc EXCEPT ![s] = "fwd"]
       ELSE /\ ~SenderAlive(s)
            /\ tpc' = [tpc EXCEPT ![s] = "done"]
            /\ UNCHANGED <<held, chan>>
    /\ UNCHANGED <<senders, nreg, saddr, relay, reader, got, accepted, cpc, call,
                   readers, waitq, udp, nsend>>

\* writer.send(bytes).await: Err when the consumer dropped the reader (the task
\* then calls this.remove(&addr)), suspended while the relay queue is full.
TaskForward(s) ==
    /\ UNCHANGED procVars
    /\ tpc[s] = "fwd"
    /\ IF reader[s] = "dropped"
       THEN /\ IF CanWrite
               THEN DoTaskRemove(s) /\ waitq' = waitq
               ELSE /\ tpc' = [tpc EXCEPT ![s] = "rmwait"]
                    /\ waitq' = Enqueue(TaskId(s), "w")
                    /\ UNCHANGED <<senders, chan>>
            /\ UNCHANGED relay
       ELSE /\ HasCapacity(relay[s])
            /\ relay' = [relay EXCEPT ![s] = Push(relay[s], held[s])]
            /\ tpc' = [tpc EXCEPT ![s] = "recv"]
            /\ UNCHANGED <<senders, chan, waitq>>
    /\ held' = [held EXCEPT ![s] = 0]
    /\ UNCHANGED <<nreg, saddr, reader, got, accepted, cpc, call,
                   readers, udp, nsend>>

\* ------------------------------------------------------------ consumer
\* The owner of the Receiver returned by get_receiver.
ConsumerRecv(s) ==
    /\ UNCHANGED procVars
    /\ reader[s] = "alive"
    /\ relay[s] # <<>>
    /\ got' = [got EXCEPT ![s] = Append(got[s], Front(relay[s]))]
    /\ relay' = [relay EXCEPT ![s] = Pop(relay[s])]
    /\ UNCHANGED <<senders, nreg, saddr, chan, tpc, held, reader, accepted, cpc,
                   call, readers, waitq, udp, nsend>>

\* recv() returns None: the relay queue is empty and the writer is gone.
ConsumerClosed(s) ==
    /\ UNCHANGED procVars
    /\ reader[s] = "alive"
    /\ relay[s] = <<>>
    /\ tpc[s] = "done"
    /\ reader' = [reader EXCEPT ![s] = "closed"]
    /\ UNCHANGED <<senders, nreg, saddr, chan, relay, tpc, held, got, accepted, cpc,
                   call, readers, waitq, udp, nsend>>

\* The consumer drops the reader; queued payloads are discarded with it.
ConsumerDrop(s) ==
    /\ UNCHANGED procVars
    /\ reader[s] = "alive"
    /\ reader' = [reader EXCEPT ![s] = "dropped"]
    /\ relay' = [relay EXCEPT ![s] = <<>>]
    /\ UNCHANGED <<senders, nreg, saddr, chan, tpc, held, got, accepted, cpc,
                   call, readers, waitq, udp, nsend>>

Procs == {CallerId(c) : c \in Callers} \cup {TaskId(s) : s \in Sess}

Next ==
    \/ \E c \in Callers, a \in RegAddrs : GetReceiver(c, a)
    \/ \E c \in Callers : GetReceiverRun(c)
    \/ \E c \in Callers, a \in Addrs, flag \in BOOLEAN : Send(c, a, flag)
    \/ \E c \in Callers : SendLookup(c)
    \/ \E c \in Callers : SendChan(c)
    \/ \E c \in Callers : SendUdp(c)
    \/ \E s \in Sess : TaskRecv(s)
    \/ \E s \in Sess : TaskForward(s)
    \/ \E who \in Procs : Remove(who)
    \/ \E s \in Sess : ConsumerRecv(s)
    \/ \E s \in Sess : ConsumerClosed(s)
    \/ \E s \in Sess : ConsumerDrop(s)

Spec == Init /\ [][Next]_vars

\* The tokio runtime polls every task that can make progress: a forwarding
\* task at recv, writer.send or remove, and a call inside get_receiver or send,
\* takes its next step once that step stays possible.  Nothing obliges a user
\* of the router to start a call, nor a consumer to take a payload or to go
\* away.
FairSpec ==
    /\ Spec
    /\ \A s \in Sess : WF_vars(TaskRecv(s)) /\ WF_vars(TaskForward(s))
    /\ \A who \in Procs : WF_vars(Remove(who))
    /\ \A c \in Callers :
          /\ WF_vars(GetReceiverRun(c))
          /\ WF_vars(SendLookup(c))
          /\ WF_vars(SendChan(c))
          /\ WF_vars(SendUdp(c))

\* ------------------------------------------------------------ a saturated session
\* The router some time after get_receiver("a4") and 2 * ChannelCap + 1 calls
\* of send("a4", ..) whose consumer has taken nothing yet: both queues are
\* full and the forwarding task holds one payload.  These earlier payloads
\* are numbered below zero, those of the sends to come from 1.
SaturatedInit ==
    /\ senders = [a \in Addrs |-> IF a = "a4" THEN 1 ELSE 0]
    /\ nreg = 1
    /\ saddr = [s \in Sess |-> IF s = 1 THEN "a4" ELSE "none"]
    /\ relay = [s \in Sess |-> IF s = 1 THEN [i \in 1..ChannelCap |-> 0 - i] ELSE <<>>]
    /\ held = [s \in Sess |-> IF s = 1 THEN 0 - (ChannelCap + 1) ELSE 0]
    /\ chan = [s \in Sess |->
                 IF s = 1 THEN [i \in 1..ChannelCap |-> 0 - (ChannelCap + 1 + i)] ELSE <<>>]
    /\ tpc = [s \in Sess |-> IF s = 1 THEN "fwd" ELSE "unborn"]
    /\ reader = [s \in Sess |-> IF s = 1 THEN "alive" ELSE "none"]
    /\ got = [s \in Sess |-> <<>>]
    /\ accepted = [s \in Sess |->
                     IF s = 1 THEN [i \in 1..(2 * ChannelCap + 1) |-> 0 - i] ELSE <<>>]
    /\ cpc = [c \in Callers |-> "idle"]
    /\ call = [c \in Callers |-> NoCall]
    /\ readers = {}
    /\ waitq = <<>>
    /\ udp = <<>>
    /\ nsend = 0
    /\ ProcInit

\* The steps of a router whose consumers stay alive, registrations being made
\* for either address.  With every consumer alive no remove is ever called.
IsolationNext ==
    \/ \E c \in Callers, a \in Addrs : GetReceiver(c, a)
    \/ \E c \in Callers : GetReceiverRun(c)
    \/ \E c \in Callers, a \in Addrs, flag \in BOOLEAN : Send(c, a, flag)
    \/ \E c \in Callers : SendLookup(c)
    \/ \E c \in Callers : SendChan(c)
    \/ \E c \in Callers : SendUdp(c)
    \/ \E s \in Sess : TaskRecv(s)
    \/ \E s \in Sess : TaskForward(s)
    \/ \E s \in Sess : ConsumerRecv(s)

IsolationSpec == SaturatedInit /\ [][IsolationNext]_vars

\* ============================================================ CreatePermission
\* create_permission.rs.  verify_message and Router::bind_port live outside
\* these files; they are modelled from their contracts.

\* Variant: Forbidden is sent as 508 (Insufficient Capacity).
ErrCodeCapacity(err) ==
    CASE err = "BadRequest" -> 400
      [] err = "Unauthorized" -> 401
      [] err = "Forbidden" -> 508
ErrCode(err) ==
    CASE err = "BadRequest" -> 400
      [] err = "Unauthorized" -> 401
      [] err = "Forbidden" -> 403

\* reject(): an error response carrying ERROR-CODE and REALM, not signed.
\* Variant: no REALM attribute at all.
RejectNoRealm(err) ==
    [class |-> "error", code |-> ErrCode(err), attrs |-> {"ERROR-CODE"},
     realm |-> "none", key |-> "none"]
\* Variant: REALM only on Unauthorized.
RejectRealmOnUnauthorized(err) ==
    [class |-> "error", code |-> ErrCode(err),
     attrs |-> IF err = "Unauthorized" THEN {"ERROR-CODE", "REALM"} ELSE {"ERROR-CODE"},
     realm |-> IF err = "Unauthorized" THEN Realm ELSE "none", key |-> "none"]
Reject(err) ==
    [class |-> "error", code |-> ErrCode(err), attrs |-> {"ERROR-CODE", "REALM"},
     realm |-> Realm, key |-> "none"]

\* resolve(): a success response carrying SOFTWARE, signed with key.
Resolve(key) ==
    [class |-> "success", code |-> 0, attrs |-> {"SOFTWARE"}, realm |-> "none",
     key |-> key]

\* reader.get::<XorPeerAddress>() is Some
\* Variant: the attribute check is skipped.
HasPeerSkipped(r) == TRUE
HasPeer(r) == r.peer # NoPeer

\* ctx.env.external.ip() == peer.ip()
\* Variant: the identity check is skipped.
IdentityOkSkipped(r) == TRUE
IdentityOk(r) == r.peer.ip = ExternalIp

\* The arguments of the bind_port call.
BindArgs(r) == [addr |-> r.addr, port |-> r.peer.port, lifetime |-> "None"]

\* verify_message(&ctx, &reader): the user name and the 16-byte key, or None on
\* any credential or integrity failure.
KeyOf(u) == IF u = "alice" THEN "key_alice" ELSE "key_bob"
NoAuth == [user |-> "none", key |-> "none"]
VerifyMessage(r) == IF r.cred \in Users THEN [user |-> r.cred, key |-> KeyOf(r.cred)] ELSE NoAuth

\* Router::bind_port installs or refreshes the binding of the client address.
\* Variant: a binding that is already installed is released by the repeat.
BindPortReleasesOnRepeat(tbl, args) ==
    IF [addr |-> args.addr, port |-> args.port] \in tbl
    THEN tbl \ {[addr |-> args.addr, port |-> args.port]}
    ELSE tbl \cup {[addr |-> args.addr, port |-> args.port]}
BindPort(tbl, args) == tbl \cup {[addr |-> args.addr, port |-> args.port]}

\* A handler finishes with response rsp.
Respond(h, rsp) ==
    /\ hresp' = [hresp EXCEPT ![h] = rsp]
    /\ hpc' = [hpc EXCEPT ![h] = "done"]

\* process() up to its only suspension point: the attribute check, the
\* identity check, then the call of verify_message.
Receive(h, r) ==
    /\ hpc[h] \in {"idle", "done"}
    /\ hreq' = [hreq EXCEPT ![h] = r]
    /\ hbinds' = [hbinds EXCEPT ![h] = <<>>]
    /\ hevents' = [hevents EXCEPT ![h] = <<>>]
    /\ hbound' = [hbound EXCEPT ![h] = "unset"]
    /\ breq' = [breq EXCEPT ![h] = NoBinding]
    /\ bresp' = [bresp EXCEPT ![h] = NoBindingResp]
    /\ IF ~HasPeer(r)
       THEN Respond(h, Reject("BadRequest")) /\ hverify' = [hverify EXCEPT ![h] = 0]
       ELSE IF ~IdentityOk(r)
       THEN Respond(h, Reject("Forbidden")) /\ hverify' = [hverify EXCEPT ![h] = 0]
       ELSE /\ hpc' = [hpc EXCEPT ![h] = "verify"]
            /\ hverify' = [hverify EXCEPT ![h] = 1]
            /\ hresp' = [hresp EXCEPT ![h] = NoResp]
    /\ UNCHANGED perms
    /\ UNCHANGED routerVars

\* process() after verify_message returned: reject, or bind_port (which the
\* router accepts or refuses), the observer notification and the response.
Verified(h) ==
    /\ hpc[h] = "verify"
    /\ LET r == hreq[h]
           auth == VerifyMessage(r)
       IN  IF auth = NoAuth
           THEN /\ Respond(h, Reject("Unauthorized"))
                /\ UNCHANGED <<hbinds, hevents, hbound, perms>>
           ELSE /\ hbinds' = [hbinds EXCEPT ![h] = Append(hbinds[h], BindArgs(r))]
                /\ \E accepts \in BOOLEAN :
                     IF ~accepts
                     THEN /\ hbound' = [hbound EXCEPT ![h] = "None"]
                          /\ Respond(h, Reject("Forbidden"))
                          /\ UNCHANGED <<hevents, perms>>
                     ELSE /\ hbound' = [hbound EXCEPT ![h] = "Some"]
                          /\ perms' = BindPort(perms, BindArgs(r))
                          /\ hevents' = [hevents EXCEPT ![h] =
                               Append(hevents[h], [event |-> "create_permission",
                                                   addr |-> r.addr, user |-> auth.user,
                                                   peer |-> r.peer])]
                          /\ Respond(h, Resolve(auth.key))
    /\ UNCHANGED <<hreq, hverify, breq, bresp>>
    /\ UNCHANGED routerVars

\* ============================================================ Binding
\* binding.rs.  process() is synchronous: it builds the response, notifies the
\* observer and returns the response with the address it goes to.

\* The Binding success response, flushed without a key.
\* Variant: MAPPED-ADDRESS and RESPONSE-ORIGIN take each other's value.
BindingResponseSwapped(r) ==
    [class |-> "success", method |-> "Binding", xor_mapped |-> r.addr,
     mapped |-> External, origin |-> r.addr,
     attrs |-> {"XOR-MAPPED-ADDRESS", "MAPPED-ADDRESS", "RESPONSE-ORIGIN", "SOFTWARE"},
     key |-> "none", to |-> r.addr]
BindingResponse(r) ==
    [class |-> "success", method |-> "Binding", xor_mapped |-> r.addr,
     mapped |-> r.addr, origin |-> External,
     attrs |-> {"XOR-MAPPED-ADDRESS", "MAPPED-ADDRESS", "RESPONSE-ORIGIN", "SOFTWARE"},
     key |-> "none", to |-> r.addr]

\* ctx.observer.binding(&ctx.addr)
BindingEvent(r) ==
    [event |-> "binding", addr |-> r.addr, user |-> "none", peer |-> NoPeer]

\* process() of a Binding request: no check, no verify_message, no bind_port.
Binding(h, r) ==
    /\ hpc[h] \in {"idle", "done"}
    /\ breq' = [breq EXCEPT ![h] = r]
    /\ bresp' = [bresp EXCEPT ![h] = BindingResponse(r)]
    /\ hevents' = [hevents EXCEPT ![h] = <<BindingEvent(r)>>]
    /\ hverify' = [hverify EXCEPT ![h] = 0]
    /\ hbinds' = [hbinds EXCEPT ![h] = <<>>]
    /\ hbound' = [hbound EXCEPT ![h] = "unset"]
    /\ hpc' = [hpc EXCEPT ![h] = "idle"]
    /\ hreq' = [hreq EXCEPT ![h] = NoReq]
    /\ hresp' = [hresp EXCEPT ![h] = NoResp]
    /\ UNCHANGED perms
    /\ UNCHANGED routerVars

ProcNext ==
    \/ \E h \in Handlers, r \in Requests : Receive(h, r)
    \/ \E h \in Handlers : Verified(h)
    \/ \E h \in Handlers, r \in BindingRequests : Binding(h, r)

ProcSpec == Init /\ [][ProcNext]_vars

\* ============================================================ properties
IsPrefix(p, q) == Len(p) <= Len(q) /\ \A i \in 1..Len(p) : p[i] = q[i]

\* Sessions registered for address a, in registration order.
SessionsOf(a) == {s \in Sess : saddr[s] = a}
LatestOf(a) == CHOOSE s \in SessionsOf(a) : \A o \in SessionsOf(a) : o <= s

\* C1 (session uniqueness): once an address has been registered twice, the
\* table holds exactly the entry of the later registration for as long as that
\* registration's consumer is alive, whatever the first registration's
\* consumer and forwarding task do.
C1_SessionUniqueness ==
    \A a \in RegAddrs :
        (Cardinality(SessionsOf(a)) >= 2 /\ reader[LatestOf(a)] = "alive")
            => senders[a] = LatestOf(a)

\* C2 (auto-eviction, as claimed): a deliver that starts after the consumer of
\* the session registered for its address was dropped behaves as if no session
\* existed: it never finds that session's entry and heads for its queue.
C2_AutoEviction ==
    \A c \in Callers :
        ~(cpc[c] = "chan" /\ call[c].dead # 0 /\ call[c].target = call[c].dead)

\* C2 (auto-eviction, amended): the entry of a session whose consumer was
\* dropped is gone once its forwarding task has finished (it stays until the
\* task next tries to forward); a deliver falls back to UDP only with the flag
\* set and only while it finds no entry; a payload accepted into a session's
\* queue is never sent over UDP.
C2_EvictionOnDetection ==
    /\ \A s \in Sess : tpc[s] = "done" => ~(saddr[s] \in Addrs /\ senders[saddr[s]] = s)
    /\ \A c \in Callers : cpc[c] = "udp" => (call[c].flag /\ senders[call[c].addr] = 0)
    /\ \A s \in Sess : \A i \in DOMAIN accepted[s] : \A j \in DOMAIN udp :
           udp[j].data # accepted[s][i]

\* A session was evicted after its consumer was dropped and a later deliver to
\* its address is on the UDP fallback.
C2_Witness ==
    \E s \in Sess, c \in Callers :
        /\ reader[s] = "dropped"
        /\ tpc[s] = "done"
        /\ accepted[s] # <<>>
        /\ senders[saddr[s]] = 0
        /\ cpc[c] = "udp"
        /\ call[c].addr = saddr[s]

\* C3 (delivery is released): a deliver suspended on a session's full queue is
\* released once the consumer is dropped: it is never the case that the
\* deliver waits for room in the queue, holding its read guard, while the
\* session's forwarding task, its forward failed, waits for the write guard.
C3_DeliverReleased ==
    \A c \in Callers :
        ~(/\ cpc[c] = "chan"
          /\ Len(chan[call[c].target]) >= ChannelCap
          /\ reader[call[c].target] = "dropped"
          /\ tpc[call[c].target] = "rmwait")

C5_FallbackCorrectness ==
    /\ [](\A c \in Callers : cpc[c] = "udp" => (call[c].flag /\ senders[call[c].addr] = 0))
    /\ [][udp' # udp =>
            \E c \in Callers :
                /\ cpc[c] = "udp"
                /\ cpc'[c] = "idle"
                /\ senders' = senders
                /\ udp' = Append(udp, [sock |-> IF Family(call[c].addr) = "V4"
                                                THEN "v4" ELSE "v6",
                                       to |-> call[c].addr,
                                       data |-> call[c].data])]_vars
    /\ [][\A c \in Callers :
            (cpc[c] = "lookup" /\ cpc'[c] # "lookup" /\ senders[call[c].addr] = 0)
                => /\ senders' = senders
                   /\ udp' = udp
                   /\ cpc'[c] = IF call[c].flag THEN "udp" ELSE "idle"]_vars

\* Datagrams went out to an IPv4 and to an IPv6 address.
C5_Witness ==
    \E i, j \in DOMAIN udp :
        /\ udp[i].to = "a4" /\ udp[i].sock = "v4"
        /\ udp[j].to = "a6" /\ udp[j].sock = "v6"

Succeeded(h) == hpc[h] = "done" /\ hresp[h].class = "success"

\* C6 (CreatePermission success): a request answered with success made exactly
\* one bind_port call, for the requester's address, the response is signed
\* with the key verification returned, and the port bound does not come from
\* the peer attribute: two accepted requests that differ in nothing but the
\* peer attribute's port bind the same port.
C6_Success ==
    \A h \in Handlers :
        Succeeded(h) =>
            /\ Len(hbinds[h]) = 1
            /\ hbinds[h][1].addr = hreq[h].addr
            /\ hresp[h].key = VerifyMessage(hreq[h]).key
            /\ \A g \in Handlers :
                   (/\ Succeeded(g)
                    /\ hreq[g].addr = hreq[h].addr
                    /\ hreq[g].cred = hreq[h].cred
                    /\ hreq[g].peer.ip = hreq[h].peer.ip)
                       => hbinds[g][1].port = hbinds[h][1].port

Mismatched(r) == r.peer # NoPeer /\ r.peer.ip # ExternalIp

C8_MissingAttribute ==
    \A h \in Handlers :
        (hpc[h] # "idle" /\ hreq[h].peer = NoPeer)
            => /\ hpc[h] = "done"
               /\ hresp[h].class = "error"
               /\ hresp[h].code = 400
               /\ hverify[h] = 0
               /\ hbinds[h] = <<>>

\* Requests without the attribute, with valid and with failing credentials,
\* were answered.
C8_Witness ==
    \E h, g \in Handlers :
        /\ hpc[h] = "done" /\ hreq[h].peer = NoPeer /\ hreq[h].cred \in Users
        /\ hpc[g] = "done" /\ hreq[g].peer = NoPeer /\ hreq[g].cred = "bad"
        /\ hresp[h].code = 400 /\ hresp[g].code = 400

AuthFails(r) == r.peer # NoPeer /\ r.peer.ip = ExternalIp /\ r.cred \notin Users

\* C9 (authentication failure): a request that passes the identity check and
\* fails verification is answered 401 with the configured realm, and
\* bind_port is not called for it.
C9_AuthFailure ==
    \A h \in Handlers :
        (hpc[h] # "idle" /\ AuthFails(hreq[h]))
            => /\ hbinds[h] = <<>>
               /\ hpc[h] = "done"
                    => /\ hresp[h].class = "error"
                       /\ hresp[h].code = 401
                       /\ "REALM" \in hresp[h].attrs
                       /\ hresp[h].realm = Realm

\* A request with failing credentials was answered 401.
C9_Witness ==
    \E h \in Handlers :
        /\ hpc[h] = "done" /\ AuthFails(hreq[h]) /\ hreq[h].cred = "bad"
        /\ hverify[h] = 1
        /\ hresp[h].code = 401

\* C10 (realm, as claimed): an error response carries the realm exactly when
\* it is a 401.
C10_RealmOnlyOnUnauthorized ==
    \A h \in Handlers :
        (hpc[h] = "done" /\ hresp[h].class = "error")
            => ("REALM" \in hresp[h].attrs <=> hresp[h].code = 401)

\* C10 (realm, amended): every error response of the handler (400, 401, 403)
\* carries the configured realm; the success response carries none.
C10_RealmOnEveryError ==
    \A h \in Handlers :
        hpc[h] = "done"
            => /\ "REALM" \in hresp[h].attrs <=> hresp[h].class = "error"
               /\ hresp[h].class = "error" => hresp[h].realm = Realm

\* A 400 and a 403 response carrying the realm.
C10_Witness ==
    \E h, g \in Handlers :
        /\ hpc[h] = "done" /\ hresp[h].code = 400 /\ "REALM" \in hresp[h].attrs
        /\ hpc[g] = "done" /\ hresp[g].code = 403 /\ "REALM" \in hresp[g].attrs

\* C11 (Binding transaction): a Binding request from address a, whatever its
\* credentials, is answered with a success response sent to a that carries a
\* in XOR-MAPPED-ADDRESS and in MAPPED-ADDRESS and the server's external
\* address in RESPONSE-ORIGIN and is not signed; verify_message is not
\* invoked; the observer is notified of binding(a) and of nothing else.
C11_BindingTransaction ==
    \A h \in Handlers :
        breq[h] # NoBinding
            => /\ bresp[h].class = "success"
               /\ bresp[h].method = "Binding"
               /\ bresp[h].to = breq[h].addr
               /\ bresp[h].xor_mapped = breq[h].addr
               /\ bresp[h].mapped = breq[h].addr
               /\ bresp[h].origin = External
               /\ bresp[h].key = "none"
               /\ hverify[h] = 0
               /\ Len(hevents[h]) = 1
               /\ hevents[h][1].event = "binding"
               /\ hevents[h][1].addr = breq[h].addr

\* Binding requests without credentials and with failing credentials, from
\* two addresses, were answered.
C11_Witness ==
    \E h, g \in Handlers :
        /\ breq[h].addr = "c1" /\ breq[h].cred = "none" /\ bresp[h].to = "c1"
        /\ breq[g].addr = "c2" /\ breq[g].cred = "bad" /\ bresp[g].to = "c2"

\* C12 (CreatePermission idempotence): every processing of a valid request
\* whose binding the router accepts ends in success with the binding
\* installed, the first time and every later time; processing a request whose
\* binding is already installed leaves the router's bindings exactly as they
\* were (no second binding, none lost, no error from the repeat).
C12_Idempotence ==
    /\ [](\A h \in Handlers :
            (hpc[h] = "done" /\ hbound[h] = "Some")
                => /\ hresp[h].class = "success"
                   /\ [addr |-> hreq[h].addr, port |-> hreq[h].peer.port] \in perms)
    /\ [][\A h \in Handlers :
            (/\ hpc[h] = "verify"
             /\ hpc'[h] = "done"
             /\ hbound'[h] = "Some"
             /\ [addr |-> hreq[h].addr, port |-> hreq[h].peer.port] \in perms)
                => perms' = perms]_vars

\* The same valid request was processed twice, both times with success, and
\* the router holds the one binding it asks for.
C12_Witness ==
    \E h, g \in Handlers :
        /\ h # g
        /\ hreq[h] = hreq[g]
        /\ hpc[h] = "done" /\ hresp[h].class = "success"
        /\ hpc[g] = "done" /\ hresp[g].class = "success"
        /\ perms = {[addr |-> hreq[h].addr, port |-> hreq[h].peer.port]}

\* C13 (lock discipline): no caller holds a guard of the session table while
\* it is at the channel send or at the UDP send of a deliver; the guard is
\* held for the lookup only.
C13_LockDiscipline ==
    \A c \in Callers : cpc[c] \in {"chan", "udp"} => c \notin readers

\* C14 (eviction targets only the failed channel): whenever the entry of an
\* address leaves the table without being replaced, delivery to that entry's
\* own channel has failed: its consumer is dropped or its forwarding task is
\* gone.  In particular a superseded registration's forwarding task does not
\* remove the entry of a later registration whose consumer is alive.
C14_EvictsOnlyFailedChannel ==
    [][\A a \in Addrs :
          (senders[a] # 0 /\ senders'[a] = 0)
              => \/ reader[senders[a]] = "dropped"
                 \/ tpc[senders[a]] \notin {"recv", "fwd", "rmwait"}]_vars

\* C15 (forwarding-task termination): a forwarding task whose forward to its
\* consumer has failed eventually terminates, its address released from the
\* table.
C15_TaskTerminates ==
    \A s \in Sess :
        (tpc[s] = "rmwait") ~> (tpc[s] = "done" /\ senders[saddr[s]] # s)

C17_NoEffectOnRejection ==
    /\ [](\A h \in Handlers :
            /\ hbinds[h] # <<>>
                 => /\ hreq[h].peer # NoPeer
                    /\ hreq[h].peer.ip = ExternalIp
                    /\ hreq[h].cred \in Users
                    /\ hverify[h] = 1
            /\ hverify[h] > 0
                 => /\ hreq[h].peer # NoPeer
                    /\ hreq[h].peer.ip = ExternalIp
            /\ (hpc[h] = "done" /\ hresp[h].class = "error" /\ hbound[h] = "unset")
                 => hbinds[h] = <<>> /\ hevents[h] = <<>>
            /\ breq[h] # NoBinding
                 => /\ hbinds[h] = <<>>
                    /\ \A i \in DOMAIN hevents[h] :
                           hevents[h][i].event # "create_permission")
    /\ [][perms' # perms =>
            \E h \in Handlers :
                /\ hpc[h] = "verify"
                /\ hbound'[h] = "Some"
                /\ Len(hbinds'[h]) = 1]_vars

\* A request rejected with 401 and a Binding request were processed after
\* another request had installed a binding, which is still the only one.
C17_Witness ==
    \E h, g \in Handlers :
        /\ hpc[h] = "done" /\ hresp[h].code = 401 /\ hreq[h].addr = "c2"
        /\ breq[g].addr = "c2"
        /\ perms = {[addr |-> "c1", port |-> 49152]}

\* C18 (cross-session isolation): a call for another address never waits on
\* a deliver suspended on the full queue of a session whose consumer is
\* alive: no get_receiver("a6") waits for the write guard while a deliver to
\* "a4" is suspended on its session's full queue.
C18_Isolation ==
    \A c, d \in Callers :
        ~(/\ cpc[c] = "chan"
          /\ call[c].addr = "a4"
          /\ Len(chan[call[c].target]) >= ChannelCap
          /\ reader[call[c].target] = "alive"
          /\ cpc[d] = "reg"
          /\ call[d].addr = "a6")

\* How often payload d has been output: taken by a consumer or sent as a
\* datagram.
Outputs(d) ==
    Cardinality({e \in Sess \X (1..MaxSends) :
                    e[2] \in DOMAIN got[e[1]] /\ got[e[1]][e[2]] = d})
        + Cardinality({j \in DOMAIN udp : udp[j].data = d})

\* How often payload d has been enqueued for a session.
Enqueued(d) ==
    Cardinality({e \in Sess \X (1..MaxSends) :
                    e[2] \in DOMAIN accepted[e[1]] /\ accepted[e[1]][e[2]] = d})

\* C19 (at-most-once delivery): every payload handed to deliver is output at
\* most once in total, to one consumer or as one datagram; it is enqueued for
\* at most one session, once; and a payload that was enqueued is never a
\* datagram, whatever became of the session.
C19_AtMostOnce ==
    \A d \in 1..nsend :
        /\ Outputs(d) <= 1
        /\ Enqueued(d) <= 1
        /\ Enqueued(d) = 1 => \A j \in DOMAIN udp : udp[j].data # d

\* One payload reached a consumer, one left as a datagram, and one was
\* enqueued for a session whose consumer was dropped and whose task has ended:
\* it is output nowhere.
C19_Witness ==
    \E s \in Sess, d \in 1..nsend :
        /\ \E o \in Sess : got[o] # <<>>
        /\ udp # <<>>
        /\ reader[s] = "dropped"
        /\ tpc[s] = "done"
        /\ Enqueued(d) = 1
        /\ \E i \in DOMAIN accepted[s] : accepted[s][i] = d
        /\ Outputs(d) = 0

\* Payloads enqueued for session s that sit in one of its two queues or in
\* the hands of its forwarding task.
Buffered(s) == Len(chan[s]) + Len(relay[s]) + (IF held[s] # 0 THEN 1 ELSE 0)

\* C20 (bounded buffering): neither queue of a session ever holds more than
\* its capacity, so at most two queues' worth plus the payload the task holds
\* are buffered; while the consumer is alive that also bounds what was
\* enqueued and not yet taken; and a deliver at the channel send returns only
\* by appending its payload to a queue that had room: it neither drops the
\* payload nor overfills the queue.
C20_BoundedBuffering ==
    /\ [](\A s \in Sess :
            /\ Len(chan[s]) <= ChannelCap
            /\ Len(relay[s]) <= ChannelCap
            /\ Buffered(s) <= 2 * ChannelCap + 1
            /\ reader[s] = "alive"
                 => Len(accepted[s]) - Len(got[s]) <= 2 * ChannelCap + 1)
    /\ [][\A c \in Callers :
            (cpc[c] = "chan" /\ cpc'[c] = "idle")
                => /\ Len(chan[call[c].target]) < ChannelCap
                   /\ chan'[call[c].target] =
                        Append(chan[call[c].target], call[c].data)]_vars

\* A deliver is suspended on a full queue of a session whose consumer is alive
\* and whose task holds a payload.
C20_Witness ==
    \E c \in Callers :
        /\ cpc[c] = "chan"
        /\ Len(chan[call[c].target]) = ChannelCap
        /\ held[call[c].target] # 0
        /\ reader[call[c].target] = "alive"
====
